---- MODULE Spec2Model ----
(***************************************************************************)
(* Model of src/src/ddgs_mcp/main.py: the DDGS MCP server.  Two tools      *)
(* (web_search, news_search) and two resource templates                    *)
(* (search://web/{query}, search://news/{query}{?timelimit}) forward their *)
(* parameters to one process-wide DDGS client and wrap what it returns.    *)
(*                                                                         *)
(* An invocation occupies a slot.  It is dispatched (parameters bound and  *)
(* validated against the Field constraints, provider called), suspended    *)
(* while the provider works, resumed with what the provider returned or    *)
(* raised, and finally its outcome is sent and the slot is freed.          *)
(***************************************************************************)
EXTENDS Integers, Sequences, FiniteSets, TLC

VARIABLES
    _ddgs_client,   \* the module-level DDGS client handle
    provider,       \* behaviour of the search provider behind the handle
    inv             \* slot -> the invocation it holds

vars == <<_ddgs_client, provider, inv>>

------------------------------------------------------------------------------
(* Bounds of the model *)

MaxLen == 2         \* longest result list the provider returns
NumSlots == 2       \* invocations in flight at once

(* Constants of the program *)

MinMaxResults == 1
MaxMaxResults == 100
DefaultMaxResults == 10
ResourceMaxResults == 5

None == "<None>"    \* Python's None

------------------------------------------------------------------------------
(* Inputs *)

Queries == {"rust ownership", "tla"}
Regions == {"us-en"}
MaxResultsInputs == {0, 1, 100, 101}
Timelimits == {"d", "y", "x", None}
Backends == {"bing"}
Records == {"r1", "r2"}     \* result dicts the provider can return

OptionalParams == {"region", "max_results", "timelimit", "backend"}

\* The keyword arguments of a tool call: query, and any of the optional ones.
ToolKwargs ==
    { [k \in g \cup {"query"} |-> full[k]] :
        g \in SUBSET OptionalParams,
        full \in [query : Queries, region : Regions,
                  max_results : MaxResultsInputs,
                  timelimit : Timelimits, backend : Backends] }

\* The parameters of a resource URI: {query}, and {?timelimit} for news.
WebUriParams == { [query |-> q] : q \in Queries }
NewsUriParams ==
    WebUriParams \cup
    { [query |-> q, timelimit |-> t] : q \in Queries, t \in Timelimits \ {None} }

RECURSIVE SeqsUpTo(_, _)
SeqsUpTo(S, n) ==
    IF n = 0 THEN {<<>>}
    ELSE LET shorter == SeqsUpTo(S, n - 1)
         IN  shorter \cup { Append(s, x) : s \in shorter, x \in S }

ProviderErrors ==
    { [kind |-> "raise", type |-> "DDGSException", message |-> <<"No results found.">>],
      [kind |-> "raise", type |-> "TimeoutException", message |-> <<"timed out">>] }

\* What a provider call can end in: a list of results, or an exception.
ProviderOutcomes ==
    { [kind |-> "return", value |-> rs] : rs \in SeqsUpTo(Records, MaxLen) }
        \cup ProviderErrors

\* The smaller inputs of the concurrent specification.
ConcToolKwargs ==
    { [query |-> "tla"],
      [query |-> "rust ownership", region |-> "us-en", max_results |-> 1,
       timelimit |-> "d", backend |-> "bing"] }
ConcWebUriParams == WebUriParams
ConcNewsUriParams == { [query |-> "tla"], [query |-> "tla", timelimit |-> "d"] }
ConcOutcomes ==
    { [kind |-> "return", value |-> <<>>],
      [kind |-> "return", value |-> <<"r2", "r1">>],
      [kind |-> "raise", type |-> "DDGSException", message |-> <<"No results found.">>] }

\* A provider stubbed to return fixed data: one outcome per search method.
StubProviders ==
    { [mode |-> "stub", text |-> t, news |-> n] : t \in ConcOutcomes, n \in ConcOutcomes }

Slots == 1 .. NumSlots
SeqSlots == {1}

------------------------------------------------------------------------------
(* The client handle and the provider *)

\* _ddgs_client = DDGS()
DDGS == [proxy |-> None]

\* The provider may end a call of `method` in `ret`.
ProviderMayReturn(method, ret) ==
    \/ provider.mode = "live"
    \/ provider.mode = "stub" /\ ret = provider[method]

------------------------------------------------------------------------------
(* Parameter binding: the defaults and constraints of the Field declarations *)

ToolDefaults ==
    [region |-> "cn-zh", max_results |-> DefaultMaxResults,
     timelimit |-> None, backend |-> "auto"]

Bind(kwargs) ==
    [k \in {"query"} \cup OptionalParams |->
        IF k \in DOMAIN kwargs THEN kwargs[k] ELSE ToolDefaults[k]]

\* Valid with the upper constraint left out
ValidNoUpper(b) ==
    b.max_results >= MinMaxResults

\* Field(ge=1, le=100) on max_results
Valid(b) ==
    b.max_results >= MinMaxResults /\ b.max_results <= MaxMaxResults

ValidationError ==
    [kind |-> "raise", type |-> "ValidationError", message |-> <<"max_results">>]

------------------------------------------------------------------------------
(* json.dumps: a document is the sequence of its tokens *)

RECURSIVE JsonItems(_)
JsonItems(items) ==
    IF Len(items) = 0 THEN <<>>
    ELSE IF Len(items) = 1 THEN << <<"item", items[1]>> >>
    ELSE << <<"item", items[1]>>, <<"punct", ",">> >> \o JsonItems(Tail(items))

JsonValue(kind, value) ==
    IF kind = "str" THEN << <<"str", value>> >>
    ELSE << <<"punct", "[">> >> \o JsonItems(value) \o << <<"punct", "]">> >>

RECURSIVE JsonMembers(_)
JsonMembers(members) ==
    IF Len(members) = 0 THEN <<>>
    ELSE LET m == members[1]
             one == << <<"key", m[1]>>, <<"punct", ":">> >> \o JsonValue(m[2], m[3])
         IN  IF Len(members) = 1 THEN one
             ELSE one \o << <<"punct", ",">> >> \o JsonMembers(Tail(members))

\* members: the dict's items in insertion order, as <<key, kind, value>>
json_dumps(members) ==
    << <<"punct", "{">> >> \o JsonMembers(members) \o << <<"punct", "}">> >>

\* The string values a document holds under `key`.
JsonStrings(doc, key) ==
    { doc[i + 2][2] : i \in { j \in 1 .. Len(doc) - 2 :
                                /\ doc[j] = <<"key", key>>
                                /\ doc[j + 2][1] = "str" } }

------------------------------------------------------------------------------
(* The bodies of the four operations *)

\* _ddgs_client.text(query=..., region=..., max_results=..., safesearch=..., ...)
web_search_call(b) ==
    [method |-> "text", query |-> b.query, region |-> b.region,
     max_results |-> b.max_results, safesearch |-> "moderate",
     timelimit |-> b.timelimit, backend |-> b.backend]

\* web_search_response cutting the provider's list down to max_results
web_search_response_sliced(b, results) ==
    [query |-> b.query, region |-> b.region, backend |-> b.backend,
     results_count |-> Len(results),
     results |-> SubSeq(results, 1,
                        IF Len(results) < b.max_results
                        THEN Len(results) ELSE b.max_results)]

web_search_response(b, results) ==
    [query |-> b.query, region |-> b.region, backend |-> b.backend,
     results_count |-> Len(results), results |-> results]

\* web_search_error dropping the provider's message
web_search_error_generic(e) ==
    [kind |-> "raise", type |-> "RuntimeError",
     message |-> <<"DDGS web search failed: ",
                   ". Check query parameters and backend availability.">>]

web_search_error(e) ==
    [kind |-> "raise", type |-> "RuntimeError",
     message |-> <<"DDGS web search failed: ">> \o e.message
                 \o <<". Check query parameters and backend availability.">>]

\* web_search keeping its parameters in module-level state that the
\* invocations in flight share
web_search_outcome_shared(b, ret) ==
    LET t == CHOOSE t \in DOMAIN inv : inv[t].pc # "idle"
        shared == [b EXCEPT !.query = inv[t].args.query]
    IN  IF ret.kind = "return"
        THEN [kind |-> "return", value |-> web_search_response(shared, ret.value)]
        ELSE web_search_error(ret)

\* the try/except of web_search, given what the provider call ended in
web_search_outcome(b, ret) ==
    IF ret.kind = "return"
    THEN [kind |-> "return", value |-> web_search_response(b, ret.value)]
    ELSE web_search_error(ret)

\* _ddgs_client.news(query=..., region=..., max_results=..., timelimit=..., backend=...)
news_search_call(b) ==
    [method |-> "news", query |-> b.query, region |-> b.region,
     max_results |-> b.max_results, timelimit |-> b.timelimit,
     backend |-> b.backend]

\* news_search_response echoing the declared default of timelimit
news_search_response_default(b, results) ==
    [query |-> b.query, timelimit |-> None, backend |-> b.backend,
     results_count |-> Len(results), results |-> results]

news_search_response(b, results) ==
    [query |-> b.query, timelimit |-> b.timelimit, backend |-> b.backend,
     results_count |-> Len(results), results |-> results]

news_search_error(e) ==
    [kind |-> "raise", type |-> "RuntimeError",
     message |-> <<"DDGS news search failed: ">> \o e.message
                 \o <<". Check query parameters and backend availability.">>]

\* news_search swallowing the provider's exception into an empty response
news_search_outcome_swallow(b, ret) ==
    [kind |-> "return",
     value |-> news_search_response(b, IF ret.kind = "return" THEN ret.value ELSE <<>>)]

news_search_outcome(b, ret) ==
    IF ret.kind = "return"
    THEN [kind |-> "return", value |-> news_search_response(b, ret.value)]
    ELSE news_search_error(ret)

\* web_search_resource_call leaving the limit to the tools' default
web_search_resource_call_default(p) ==
    [method |-> "text", query |-> p.query, max_results |-> DefaultMaxResults]

\* _ddgs_client.text(query, max_results=5)
web_search_resource_call(p) ==
    [method |-> "text", query |-> p.query, max_results |-> ResourceMaxResults]

\* web_search_resource writing the query it remembers from the invocations
\* in flight instead of its own
web_search_resource_outcome_cached(p, ret) ==
    LET t == CHOOSE t \in DOMAIN inv : inv[t].pc # "idle"
    IN  IF ret.kind = "return"
        THEN [kind |-> "return",
              value |-> json_dumps(<< <<"query", "str", inv[t].args.query>>,
                                      <<"type", "str", "web_search">>,
                                      <<"results", "list", ret.value>> >>)]
        ELSE ret

\* no try/except: what the provider raises leaves the function as it is
web_search_resource_outcome(p, ret) ==
    IF ret.kind = "return"
    THEN [kind |-> "return",
          value |-> json_dumps(<< <<"query", "str", p.query>>,
                                  <<"type", "str", "web_search">>,
                                  <<"results", "list", ret.value>> >>)]
    ELSE ret

\* news_search_resource ignoring the timelimit of the URI
news_search_resource_timelimit_ignored(p) ==
    "w"

\* def news_search_resource(query: str, timelimit: str = "w")
news_search_resource_timelimit(p) ==
    IF "timelimit" \in DOMAIN p THEN p.timelimit ELSE "w"

\* _ddgs_client.news(query, timelimit=timelimit, max_results=5)
news_search_resource_call(p) ==
    [method |-> "news", query |-> p.query,
     timelimit |-> news_search_resource_timelimit(p),
     max_results |-> ResourceMaxResults]

news_search_resource_outcome(p, ret) ==
    IF ret.kind = "return"
    THEN [kind |-> "return",
          value |-> json_dumps(<< <<"query", "str", p.query>>,
                                  <<"type", "str", "news_search">>,
                                  <<"timelimit", "str", news_search_resource_timelimit(p)>>,
                                  <<"results", "list", ret.value>> >>)]
    ELSE ret

------------------------------------------------------------------------------
(* Invocations *)

Idle == [pc |-> "idle"]

Calling(op, args, call) ==
    [pc |-> "calling", op |-> op, args |-> args, calls |-> <<call>>,
     rets |-> <<>>, out |-> <<>>]

Rejected(op, args) ==
    [pc |-> "done", op |-> op, args |-> args, calls |-> <<>>,
     rets |-> <<>>, out |-> <<ValidationError>>]

Done(i, ret, out) ==
    [i EXCEPT !.pc = "done", !.rets = <<ret>>, !.out = <<out>>]

Init ==
    /\ _ddgs_client = DDGS
    /\ provider = [mode |-> "live"]
    /\ inv = [s \in Slots |-> Idle]

InitConc ==
    /\ _ddgs_client = DDGS
    /\ provider \in {[mode |-> "live"]} \cup StubProviders
    /\ inv = [s \in Slots |-> Idle]

\* The tool is called: bind, validate, and call the provider.
web_search(s, kwargs) ==
    /\ inv[s].pc = "idle"
    /\ inv' = [inv EXCEPT ![s] =
                IF Valid(Bind(kwargs))
                THEN Calling("web_search", kwargs, web_search_call(Bind(kwargs)))
                ELSE Rejected("web_search", kwargs)]
    /\ UNCHANGED <<_ddgs_client, provider>>

\* The provider call ends and the rest of the function runs.
web_search_resume(s, ret) ==
    /\ inv[s].pc = "calling"
    /\ inv[s].op = "web_search"
    /\ ProviderMayReturn("text", ret)
    /\ inv' = [inv EXCEPT ![s] =
                Done(@, ret, web_search_outcome(Bind(inv[s].args), ret))]
    /\ UNCHANGED <<_ddgs_client, provider>>

news_search(s, kwargs) ==
    /\ inv[s].pc = "idle"
    /\ inv' = [inv EXCEPT ![s] =
                IF Valid(Bind(kwargs))
                THEN Calling("news_search", kwargs, news_search_call(Bind(kwargs)))
                ELSE Rejected("news_search", kwargs)]
    /\ UNCHANGED <<_ddgs_client, provider>>

news_search_resume(s, ret) ==
    /\ inv[s].pc = "calling"
    /\ inv[s].op = "news_search"
    /\ ProviderMayReturn("news", ret)
    /\ inv' = [inv EXCEPT ![s] =
                Done(@, ret, news_search_outcome(Bind(inv[s].args), ret))]
    /\ UNCHANGED <<_ddgs_client, provider>>

web_search_resource(s, p) ==
    /\ inv[s].pc = "idle"
    /\ inv' = [inv EXCEPT ![s] =
                Calling("web_search_resource", p, web_search_resource_call(p))]
    /\ UNCHANGED <<_ddgs_client, provider>>

web_search_resource_resume(s, ret) ==
    /\ inv[s].pc = "calling"
    /\ inv[s].op = "web_search_resource"
    /\ ProviderMayReturn("text", ret)
    /\ inv' = [inv EXCEPT ![s] =
                Done(@, ret, web_search_resource_outcome(inv[s].args, ret))]
    /\ UNCHANGED <<_ddgs_client, provider>>

news_search_resource(s, p) ==
    /\ inv[s].pc = "idle"
    /\ inv' = [inv EXCEPT ![s] =
                Calling("news_search_resource", p, news_search_resource_call(p))]
    /\ UNCHANGED <<_ddgs_client, provider>>

news_search_resource_resume(s, ret) ==
    /\ inv[s].pc = "calling"
    /\ inv[s].op = "news_search_resource"
    /\ ProviderMayReturn("news", ret)
    /\ inv' = [inv EXCEPT ![s] =
                Done(@, ret, news_search_resource_outcome(inv[s].args, ret))]
    /\ UNCHANGED <<_ddgs_client, provider>>

\* The outcome is sent to the host and the invocation is discarded.
Reply(s) ==
    /\ inv[s].pc = "done"
    /\ inv' = [inv EXCEPT ![s] = Idle]
    /\ UNCHANGED <<_ddgs_client, provider>>

\* One invocation at a time, all inputs, a live provider.
Next ==
    \E s \in SeqSlots :
        \/ \E kwargs \in ToolKwargs : web_search(s, kwargs)
        \/ \E kwargs \in ToolKwargs : news_search(s, kwargs)
        \/ \E p \in WebUriParams : web_search_resource(s, p)
        \/ \E p \in NewsUriParams : news_search_resource(s, p)
        \/ \E ret \in ProviderOutcomes : web_search_resume(s, ret)
        \/ \E ret \in ProviderOutcomes : news_search_resume(s, ret)
        \/ \E ret \in ProviderOutcomes : web_search_resource_resume(s, ret)
        \/ \E ret \in ProviderOutcomes : news_search_resource_resume(s, ret)
        \/ Reply(s)

Spec == Init /\ [][Next]_vars

\* Invocations interleaved in every slot, a live or a stubbed provider.
NextConc ==
    \E s \in Slots :
        \/ \E kwargs \in ConcToolKwargs : web_search(s, kwargs)
        \/ \E kwargs \in ConcToolKwargs : news_search(s, kwargs)
        \/ \E p \in ConcWebUriParams : web_search_resource(s, p)
        \/ \E p \in ConcNewsUriParams : news_search_resource(s, p)
        \/ \E ret \in ConcOutcomes : web_search_resume(s, ret)
        \/ \E ret \in ConcOutcomes : news_search_resume(s, ret)
        \/ \E ret \in ConcOutcomes : web_search_resource_resume(s, ret)
        \/ \E ret \in ConcOutcomes : news_search_resource_resume(s, ret)
        \/ Reply(s)

SpecConc == InitConc /\ [][NextConc]_vars

------------------------------------------------------------------------------
(* Properties *)

Tools == {"web_search", "news_search"}
Resources == {"web_search_resource", "news_search_resource"}

Active(s) == inv[s].pc # "idle"
Finished(s) == inv[s].pc = "done"
\* the provider call of the invocation in s has ended
Returned(s) == Finished(s) /\ inv[s].rets # <<>>
ProviderRaised(s) == Returned(s) /\ inv[s].rets[1].kind = "raise"
ProviderSucceeded(s) == Returned(s) /\ inv[s].rets[1].kind = "return"

AllowedTimelimits(op) ==
    IF op = "web_search" THEN {"d", "w", "m", "y"} ELSE {"d", "w", "m"}

InvalidTimelimit(s) ==
    /\ Active(s)
    /\ inv[s].op \in Tools
    /\ "timelimit" \in DOMAIN inv[s].args
    /\ inv[s].args.timelimit # None
    /\ inv[s].args.timelimit \notin AllowedTimelimits(inv[s].op)

\* seq contains part as a run of consecutive elements
Contains(seq, part) ==
    \E i \in 1 .. Len(seq) - Len(part) + 1 :
        SubSeq(seq, i, i + Len(part) - 1) = part

\* C1: a web_search call whose timelimit is present and not one of d, w, m, y,
\* and a news_search call whose timelimit is present and not one of d, w, m,
\* is rejected before the provider is invoked: it makes no provider call.
C1_InvalidTimelimitRejected ==
    \A s \in Slots : InvalidTimelimit(s) => inv[s].calls = <<>>

\* C2 as stated: when the provider raises during web_search or news_search,
\* the failure has one uniform shape and preserves the query of the call.
C2_FailurePreservesQuery ==
    \A s \in Slots :
        (ProviderRaised(s) /\ inv[s].op \in Tools) =>
            /\ inv[s].out[1].kind = "raise"
            /\ inv[s].out[1].type = "RuntimeError"
            /\ Contains(inv[s].out[1].message, <<inv[s].args.query>>)

FailurePrefix(op) ==
    IF op = "web_search" THEN "DDGS web search failed: "
    ELSE "DDGS news search failed: "

\* C2 as amended: when the provider raises during web_search or news_search,
\* both tools raise a RuntimeError whose message is the tool's own prefix, then
\* the provider's message, then one fixed advice suffix; the tool adds nothing
\* else to it, so the query is not preserved.
C2_FailureUniform ==
    \A s \in Slots :
        (ProviderRaised(s) /\ inv[s].op \in Tools) =>
            LET out == inv[s].out[1]
                e == inv[s].rets[1]
            IN  /\ out.kind = "raise"
                /\ out.type = "RuntimeError"
                /\ Len(out.message) = Len(e.message) + 2
                /\ out.message[1] = FailurePrefix(inv[s].op)
                /\ SubSeq(out.message, 2, Len(out.message) - 1) = e.message
                /\ out.message[Len(out.message)]
                     = ". Check query parameters and backend availability."

C2_Witness ==
    \E s \in Slots :
        /\ ProviderRaised(s)
        /\ inv[s].op = "web_search"
        /\ inv[s].out[1].kind = "raise"
        /\ ~ Contains(inv[s].out[1].message, <<inv[s].args.query>>)

\* C3: for every successful web_search or news_search call the response's
\* results are exactly the sequence the provider returned (same order, nothing
\* removed, added or deduplicated), results_count is its length and query is
\* the query passed in.
C3_ResultsAsReturned ==
    \A s \in Slots :
        (ProviderSucceeded(s) /\ inv[s].op \in Tools) =>
            /\ inv[s].out[1].kind = "return"
            /\ inv[s].out[1].value.results = inv[s].rets[1].value
            /\ inv[s].out[1].value.results_count = Len(inv[s].rets[1].value)
            /\ inv[s].out[1].value.query = inv[s].args.query

\* a successful call whose provider returned the same record twice
C3_Witness ==
    \E s \in Slots :
        /\ ProviderSucceeded(s)
        /\ inv[s].op \in Tools
        /\ inv[s].rets[1].value = <<"r1", "r1">>
        /\ inv[s].out[1].value.results_count = 2

\* C4 as stated: for every successful web_search or news_search call the
\* response echoes the effective value of each parameter passed to the provider.
C4_EchoesAllParameters ==
    \A s \in Slots :
        (ProviderSucceeded(s) /\ inv[s].op \in Tools) =>
            \A k \in DOMAIN inv[s].calls[1] \ {"method"} :
                /\ k \in DOMAIN inv[s].out[1].value
                /\ inv[s].out[1].value[k] = inv[s].calls[1][k]

Echoed(op) ==
    IF op = "web_search" THEN {"query", "region", "backend"}
    ELSE {"query", "timelimit", "backend"}

\* C4 as amended: for every successful call the response echoes the effective
\* value passed to the provider, defaults included, of query, region and
\* backend for web_search and of query, timelimit and backend for news_search;
\* the other parameters passed to the provider are not in the response.
C4_EchoesSomeParameters ==
    \A s \in Slots :
        (ProviderSucceeded(s) /\ inv[s].op \in Tools) =>
            /\ DOMAIN inv[s].out[1].value
                 = Echoed(inv[s].op) \cup {"results_count", "results"}
            /\ \A k \in Echoed(inv[s].op) :
                 inv[s].out[1].value[k] = inv[s].calls[1][k]

\* a successful web_search called with the query alone: every echo is a default
C4_Witness ==
    \E s \in Slots :
        /\ ProviderSucceeded(s)
        /\ inv[s].op = "web_search"
        /\ DOMAIN inv[s].args = {"query"}
        /\ inv[s].out[1].value.region = "cn-zh"
        /\ inv[s].out[1].value.backend = "auto"

\* C5: web_search and news_search call the provider only with max_results in
\* 1..100: a request below 1 or above 100 never reaches the provider, and the
\* limit used for a valid request is at least 1 and at most the one requested.
C5_MaxResultsInRange ==
    \A s \in Slots :
        (Active(s) /\ inv[s].op \in Tools) =>
            /\ \A i \in 1 .. Len(inv[s].calls) :
                 /\ inv[s].calls[i].max_results >= 1
                 /\ inv[s].calls[i].max_results <= 100
                 /\ "max_results" \in DOMAIN inv[s].args =>
                        inv[s].calls[i].max_results <= inv[s].args.max_results
            /\ ("max_results" \in DOMAIN inv[s].args
                    /\ (inv[s].args.max_results < 1 \/ inv[s].args.max_results > 100))
                 => inv[s].calls = <<>>

\* a request for 101 results, finished without a provider call
C5_Witness ==
    \E s \in Slots :
        /\ Finished(s)
        /\ inv[s].op \in Tools
        /\ "max_results" \in DOMAIN inv[s].args
        /\ inv[s].args.max_results = 101
        /\ inv[s].calls = <<>>

\* C6: every fetch of search://web/{query} asks the provider for exactly 5
\* results, whatever the tools' default and whatever earlier calls used.
C6_WebResourceAsksFive ==
    \A s \in Slots :
        (Active(s) /\ inv[s].op = "web_search_resource") =>
            /\ Len(inv[s].calls) = 1
            /\ inv[s].calls[1].method = "text"
            /\ inv[s].calls[1].max_results = 5

C6_Witness ==
    \E s \in Slots :
        /\ Returned(s)
        /\ inv[s].op = "web_search_resource"
        /\ inv[s].calls[1].max_results = 5

\* C7: a fetch of search://news/{query} calls the provider with timelimit "w"
\* when the URI gives none and with the given value otherwise, and the
\* timelimit field of the returned document is the value passed to the provider.
C7_NewsResourceTimelimit ==
    \A s \in Slots :
        (Active(s) /\ inv[s].op = "news_search_resource") =>
            /\ Len(inv[s].calls) = 1
            /\ inv[s].calls[1].timelimit =
                 IF "timelimit" \in DOMAIN inv[s].args
                 THEN inv[s].args.timelimit ELSE "w"
            /\ ProviderSucceeded(s) =>
                 JsonStrings(inv[s].out[1].value, "timelimit")
                    = {inv[s].calls[1].timelimit}

\* a fetch with an explicit timelimit that returned a document
C7_Witness ==
    \E s \in Slots :
        /\ ProviderSucceeded(s)
        /\ inv[s].op = "news_search_resource"
        /\ "timelimit" \in DOMAIN inv[s].args
        /\ inv[s].args.timelimit = "d"
        /\ JsonStrings(inv[s].out[1].value, "timelimit") = {"d"}

\* C8: with a provider stubbed to return fixed data, fetches of the same
\* resource URI, however interleaved with other calls, end in identical
\* documents, and each fetch makes exactly one provider call.
C8_FetchIdempotent ==
    /\ \A s \in Slots :
          (Active(s) /\ inv[s].op \in Resources) =>
              /\ Len(inv[s].calls) = 1
              /\ Finished(s) => Len(inv[s].rets) = 1
    /\ provider.mode = "stub" =>
          \A s, t \in Slots :
              ( /\ Finished(s) /\ Finished(t)
                /\ inv[s].op \in Resources
                /\ inv[s].op = inv[t].op
                /\ inv[s].args = inv[t].args )
              => inv[s].out = inv[t].out

\* two fetches of one URI, both answered with a document, side by side
C8_Witness ==
    \E s, t \in Slots :
        /\ s # t
        /\ provider.mode = "stub"
        /\ ProviderSucceeded(s) /\ ProviderSucceeded(t)
        /\ inv[s].op = "web_search_resource"
        /\ inv[t].op = "web_search_resource"
        /\ inv[s].args = inv[t].args
        /\ inv[s].out = inv[t].out

\* C9: no provider error is dropped: in each of the four operations, when the
\* provider call raises, the outcome is an error carrying the provider's
\* message, never a response or a document.
C9_ErrorsSurface ==
    \A s \in Slots :
        ProviderRaised(s) =>
            /\ inv[s].out[1].kind = "raise"
            /\ Contains(inv[s].out[1].message, inv[s].rets[1].message)

C9_Witness ==
    \E s \in Slots :
        /\ ProviderRaised(s)
        /\ inv[s].op = "news_search"
        /\ inv[s].rets[1].message = <<"timed out">>
        /\ inv[s].out[1].kind = "raise"

\* C10: the client handle stays as constructed, and under every interleaving
\* an invocation's outcome is a function of its own operation, its own
\* parameters and what the provider returned to its own call.
C10_InvocationsIndependent ==
    /\ _ddgs_client = [proxy |-> None]
    /\ \A s, t \in Slots :
          ( /\ Finished(s) /\ Finished(t)
            /\ inv[s].op = inv[t].op
            /\ inv[s].args = inv[t].args
            /\ inv[s].rets = inv[t].rets )
          => inv[s].out = inv[t].out

\* two invocations of one tool with the same parameters and provider result,
\* finished in different slots
C10_Witness ==
    \E s, t \in Slots :
        /\ s # t
        /\ ProviderSucceeded(s) /\ ProviderSucceeded(t)
        /\ inv[s].op = "web_search"
        /\ inv[t].op = "web_search"
        /\ inv[s].args = inv[t].args
        /\ inv[s].rets = inv[t].rets

====
